---- MODULE Spec2Model ----
(***************************************************************************)
(* A model of the persona server of src/backend/main.py: the persona       *)
(* configuration file, the knowledge store and its two ingestion           *)
(* pipelines, the text and image chat turns with the turns log, and the    *)
(* content-addressed voice cache.                                          *)
(*                                                                         *)
(* Handlers run on one event loop: a handler's code between two            *)
(* suspension points (await, or the yield of the streaming generator) is   *)
(* one atomic action.  Text is a sequence of one-character strings.        *)
(***************************************************************************)
EXTENDS Integers, Sequences, FiniteSets, TLC

VARIABLES
    personaFile,    \* CONFIG_PATH: [exists, data], data a map from keys to values
    personaWrites,  \* number of writes of CONFIG_PATH so far (history variable)
    personaOps,     \* persona requests served so far (bounds the model)
    lastLoad,       \* what the last load_persona_config saw, returned and wrote
    store,          \* vector_db: the set of stored knowledge items
    nextId,         \* source of fresh item ids
    lastIngest,     \* the last ingestion call: its inputs, faults and result
    turns,          \* the rows of table turns, in insertion order
    rowBy,          \* rowBy[n]: the handler that inserted row n (history variable)
    now,            \* logical clock behind datetime.now(), read by the inserts
    tpc,            \* text turn: position of generate_stream
    treq,           \* text turn: the request's form fields
    full_response,  \* text turn: the local full_response
    emitted,        \* text turn: the fragments yielded so far (history variable)
    pulled,         \* text turn: chunks taken from the generator's stream
    tout,           \* text turn: how the stream ended for the client
    tsteps,         \* text turn: the steps taken so far, in order (history variable)
    ipc,            \* image turn: position of chat_image
    ireq,           \* image turn: message, filename and uploaded image
    ifd,            \* image turn: inode behind the open buffer
    iseen,          \* image turn: the image content handed to the generator
    iout,           \* image turn: the HTTP outcome
    isteps,         \* image turn: the steps taken so far, in order (history variable)
    fs,             \* working directory: file name -> [ino, data]
    nextIno,        \* source of fresh inode numbers
    voice_engine,   \* whether ChatterboxTTS loaded at start-up
    speakerWav,     \* whether the file SPEAKER_WAV exists
    cache,          \* VOICE_CACHE_PATH: cache key -> file state
    voiceLog        \* the synthesize requests served so far (history variable)

vars == <<personaFile, personaWrites, personaOps, lastLoad, store, nextId, lastIngest,
          turns, rowBy, now, tpc, treq, full_response, emitted, pulled, tout, tsteps,
          ipc, ireq, ifd, iseen, iout, isteps, fs, nextIno,
          voice_engine, speakerWav, cache, voiceLog>>

personaVars == <<personaFile, personaWrites, personaOps, lastLoad>>
storeVars   == <<store, nextId, lastIngest>>
logVars     == <<turns, rowBy>>
textVars    == <<tpc, treq, full_response, emitted, pulled, tout, tsteps>>
imageVars   == <<ipc, ireq, ifd, iseen, iout, isteps, fs, nextIno>>
voiceVars   == <<voice_engine, speakerWav, cache, voiceLog>>

(***************************************************************************)
(* Bounds of the model.                                                    *)
(***************************************************************************)
NumText      == 2   \* concurrent text turns
NumImage     == 2   \* concurrent image turns
MaxFragments == 2   \* fragments one generation streams at most
MaxIngests   == 3   \* ingestion calls
MaxVoiceReqs == 2   \* synthesize requests
MaxPersonaOps == 2  \* persona loads and updates

TextTurns  == 1..NumText
ImageTurns == (NumText + 1)..(NumText + NumImage)

(***************************************************************************)
(* Text helpers.                                                           *)
(***************************************************************************)
Whitespace == {" "}

\* str.strip(): without its leading and trailing whitespace
RECURSIVE LStrip(_)
LStrip(s) ==
    IF s = <<>> THEN <<>>
    ELSE IF Head(s) \in Whitespace THEN LStrip(Tail(s)) ELSE s

RECURSIVE RStrip(_)
RStrip(s) ==
    IF s = <<>> THEN <<>>
    ELSE IF s[Len(s)] \in Whitespace THEN RStrip(SubSeq(s, 1, Len(s) - 1)) ELSE s

Strip(s) == RStrip(LStrip(s))

\* the concatenation of a sequence of fragments
RECURSIVE Concat(_)
Concat(ss) == IF ss = <<>> THEN <<>> ELSE Head(ss) \o Concat(Tail(ss))

(***************************************************************************)
(* Persona configuration (load_persona_config, save_persona_config,        *)
(* update_persona).                                                        *)
(***************************************************************************)
PersonaKeys ==
    {"deceased_name", "user_name", "user_nickname", "relationship",
     "date_of_death", "personality_traits", "philosophy", "achievements",
     "dimension"}

\* the persona written when CONFIG_PATH does not exist
default_persona ==
    [deceased_name      |-> "loved one's name",
     user_name          |-> "your name",
     user_nickname      |-> "ac3",
     relationship       |-> "Father",
     date_of_death      |-> "June 22, 2023",
     personality_traits |-> "Warm, wise, philosophical.",
     philosophy         |-> "The Double-You Book",
     achievements       |-> "Retired LA County Firefighter, Air Force Veteran.",
     dimension          |-> "heaven"]

\* the values the schema migration fills in
defaults ==
    [deceased_name      |-> "Subject Name",
     user_name          |-> "User",
     user_nickname      |-> "User",
     relationship       |-> "Friend",
     date_of_death      |-> "2023",
     personality_traits |-> "Kind, wise.",
     philosophy         |-> "Stoicism",
     achievements       |-> "",
     dimension          |-> "heaven"]

NoFile == [exists |-> FALSE, data |-> <<>>]
FileOf(d) == [exists |-> TRUE, data |-> d]

\* the migration loop of load_persona_config: a key of defaults that data
\* lacks is added with its default, a key that data has keeps its value
Backfill(data) ==
    [k \in (DOMAIN data) \cup PersonaKeys |->
        IF k \in DOMAIN data THEN data[k] ELSE defaults[k]]

\* a load that back-fills the mapping it returns and does not save it
LoadNeverSaving(f) ==
    LET f1   == IF f.exists THEN f ELSE FileOf(default_persona)
        data == Backfill(f1.data)
    IN  [file |-> f1, data |-> data, writes |-> IF f.exists THEN 0 ELSE 1]

\* load_persona_config on file f: the file afterwards, the mapping returned
\* and the number of writes of CONFIG_PATH it made
load_persona_config(f) ==
    LET f1         == IF f.exists THEN f ELSE FileOf(default_persona)
        w1         == IF f.exists THEN 0 ELSE 1
        data       == Backfill(f1.data)
        needs_save == \E k \in PersonaKeys : k \notin DOMAIN f1.data
    IN  IF needs_save
        THEN [file |-> FileOf(data), data |-> data, writes |-> w1 + 1]
        ELSE [file |-> f1, data |-> data, writes |-> w1]

\* the form of POST /admin/update: all nine fields
Forms ==
    {[k \in PersonaKeys |-> "edited"],
     [k \in PersonaKeys |-> IF k = "deceased_name" THEN "Ada" ELSE "edited"]}

\* dict.update: the form's fields replace those of p
DictUpdate(p, form) ==
    [k \in (DOMAIN p) \cup (DOMAIN form) |->
        IF k \in DOMAIN form THEN form[k] ELSE p[k]]

NoLoad ==
    [seen |-> FALSE, before |-> NoFile, returned |-> <<>>, writes |-> 0,
     after |-> NoFile, again |-> FALSE, prev |-> <<>>, fresh |-> FALSE]

\* the record of a load: again says the load before it saw the same file
\* (no write came in between), prev is what that load returned
LoadRecord(r) ==
    [seen     |-> TRUE,
     before   |-> personaFile,
     returned |-> r.data,
     writes   |-> r.writes,
     after    |-> r.file,
     again    |-> lastLoad.fresh,
     prev     |-> IF lastLoad.fresh THEN lastLoad.returned ELSE <<>>,
     fresh    |-> TRUE]

\* GET /api/persona
get_persona_api ==
    /\ personaOps < MaxPersonaOps
    /\ LET r == load_persona_config(personaFile)
       IN  /\ personaFile' = r.file
           /\ personaWrites' = personaWrites + r.writes
           /\ lastLoad' = LoadRecord(r)
    /\ personaOps' = personaOps + 1
    /\ UNCHANGED <<storeVars, logVars, now, textVars, imageVars, voiceVars>>

\* POST /admin/update: load, update all nine fields, save
update_persona ==
    /\ personaOps < MaxPersonaOps
    /\ \E form \in Forms :
         LET r == load_persona_config(personaFile)
             p == DictUpdate(r.data, form)
         IN  /\ personaFile' = FileOf(p)
             /\ personaWrites' = personaWrites + r.writes + 1
             /\ lastLoad' = [LoadRecord(r) EXCEPT !.fresh = FALSE]
    /\ personaOps' = personaOps + 1
    /\ UNCHANGED <<storeVars, logVars, now, textVars, imageVars, voiceVars>>

\* the persona files a server can start on: none, or one holding any subset
\* of the recognized keys (an older schema) and possibly a key of its own
StoredPersonas ==
    {NoFile} \cup
    {FileOf([k \in S |-> "stored"]) : S \in SUBSET (PersonaKeys \cup {"legacy"})}

(***************************************************************************)
(* Knowledge store and ingestion (process_csv_ingestion,                   *)
(* process_philosophy_ingestion).                                          *)
(***************************************************************************)
\* collection.get(where={"type": ty}): the stored items tagged ty
OfType(st, ty) == {it \in st : it.type = ty}

\* dict.get(col): the row's value, None (falsy, written "" here) without one
Get(row, col) == IF col \in DOMAIN row THEN row[col] ELSE ""

\* an or that takes the last value given rather than the first
Or3Reversed(a, b, c) == IF c # "" THEN c ELSE IF b # "" THEN b ELSE a

\* a or b or c
Or3(a, b, c) == IF a # "" THEN a ELSE IF b # "" THEN b ELSE c

\* row.get('text_chunk') or row.get('text') or row.get('fact')
RowText(row) == Or3(Get(row, "text_chunk"), Get(row, "text"), Get(row, "fact"))

\* row.get('year', 'Unknown')
RowYear(row) == IF "year" \in DOMAIN row THEN row["year"] ELSE "Unknown"

\* the uploaded CSV files, as the rows under their header
CsvFiles ==
    {<<>>,
     <<[other |-> "x"]>>,
     <<[text |-> "B"]>>,
     <<[text_chunk |-> "", text |-> "C", fact |-> "D"], [fact |-> "E", year |-> ""]>>,
     <<[text_chunk |-> "A", year |-> "1990"], [text |-> "B"], [other |-> "x"]>>}

\* the uploaded documents, as their extracted text
Documents ==
    {<<>>, <<" ">>, <<" ", " ">>, <<"a">>, <<" ", "a", "b", " ">>}

\* the documents and metadatas lists built from the rows with a text
RECURSIVE CsvDocuments(_)
CsvDocuments(rows) ==
    IF rows = <<>> THEN <<>>
    ELSE LET text == RowText(Head(rows))
         IN  (IF text # ""
              THEN <<[type |-> "fact", text |-> text, year |-> RowYear(Head(rows))]>>
              ELSE <<>>) \o CsvDocuments(Tail(rows))

\* RecursiveCharacterTextSplitter(chunk_size=800).split_text on a text
\* shorter than one chunk: the stripped text as the only chunk, none when
\* nothing is left
split_text(full_text) ==
    IF Strip(full_text) = <<>> THEN <<>> ELSE <<Strip(full_text)>>

PhilosophyDocuments(chunks) ==
    [n \in 1..Len(chunks) |-> [type |-> "philosophy", text |-> chunks[n], year |-> ""]]

\* vector_db.add_texts: every document stored under a fresh id
AddTexts(st, nid, docs) ==
    st \cup {[id |-> nid + n - 1, type |-> docs[n].type, text |-> docs[n].text,
              year |-> docs[n].year] : n \in 1..Len(docs)}

\* the faults of one ingestion call: which of its steps raises when reached
Faults == [read : BOOLEAN, get : BOOLEAN, delete : BOOLEAN, add : BOOLEAN]

\* a clearing that deletes whatever is stored, of either type
ClearAll(st, ty, fault) ==
    IF fault.get \/ fault.delete THEN st ELSE {}

\* the inner try of both pipelines: get the ids tagged ty and delete them;
\* an exception of either call is passed over
ClearPartition(st, ty, fault) ==
    IF fault.get \/ fault.delete THEN st ELSE st \ OfType(st, ty)

\* what the steps after the documents are built do to the store, and return
ReplaceAndInsert(st, nid, ty, docs, fault) ==
    IF docs # <<>>
    THEN LET cleared == ClearPartition(st, ty, fault)
             raised  == (IF fault.get THEN {"get"} ELSE
                         IF OfType(st, ty) # {} /\ fault.delete THEN {"delete"} ELSE {})
         IN  IF fault.add
             THEN [store |-> cleared, nextId |-> nid, ret |-> -1,
                   raised |-> raised \cup {"add"}, items |-> {}]
             ELSE [store |-> AddTexts(cleared, nid, docs), nextId |-> nid + Len(docs),
                   ret |-> Len(docs), raised |-> raised,
                   items |-> AddTexts({}, nid, docs)]
    ELSE [store |-> st, nextId |-> nid, ret |-> 0, raised |-> {}, items |-> {}]

\* process_csv_ingestion(file_path) on a file holding rows
process_csv_ingestion(st, nid, rows, fault) ==
    IF fault.read
    THEN [store |-> st, nextId |-> nid, ret |-> -1, raised |-> {"read"}, items |-> {}]
    ELSE ReplaceAndInsert(st, nid, "fact", CsvDocuments(rows), fault)

\* process_philosophy_ingestion(file_path, is_pdf) on a file whose text is
\* full_text
process_philosophy_ingestion(st, nid, full_text, fault) ==
    IF fault.read
    THEN [store |-> st, nextId |-> nid, ret |-> -1, raised |-> {"read"}, items |-> {}]
    ELSE IF Strip(full_text) = <<>>
    THEN [store |-> st, nextId |-> nid, ret |-> -2, raised |-> {}, items |-> {}]
    ELSE ReplaceAndInsert(st, nid, "philosophy",
                          PhilosophyDocuments(split_text(full_text)), fault)

NoIngest ==
    [n |-> 0, type |-> "none", ret |-> 0, raised |-> {}, items |-> {},
     before |-> {}, blank |-> FALSE, rows |-> <<>>]

\* the record of an ingestion call: what it returned, which steps raised,
\* the items it stored, the store before it, and the rows of its CSV
IngestRecord(r, ty, blank, rows) ==
    [n |-> lastIngest.n + 1, type |-> ty, ret |-> r.ret, raised |-> r.raised,
     items |-> r.items, before |-> store, blank |-> blank, rows |-> rows]

\* ingestFacts: the ingestion of an uploaded CSV
ingestFacts ==
    /\ lastIngest.n < MaxIngests
    /\ \E rows \in CsvFiles, fault \in Faults :
         LET r == process_csv_ingestion(store, nextId, rows, fault)
         IN  /\ store' = r.store
             /\ nextId' = r.nextId
             /\ lastIngest' = IngestRecord(r, "fact", FALSE, rows)
    /\ UNCHANGED <<personaVars, logVars, now, textVars, imageVars, voiceVars>>

\* ingestPhilosophy: the ingestion of an uploaded PDF or text file
ingestPhilosophy ==
    /\ lastIngest.n < MaxIngests
    /\ \E full_text \in Documents, fault \in Faults :
         LET r == process_philosophy_ingestion(store, nextId, full_text, fault)
         IN  /\ store' = r.store
             /\ nextId' = r.nextId
             /\ lastIngest' = IngestRecord(r, "philosophy",
                                           ~fault.read /\ Strip(full_text) = <<>>, <<>>)
    /\ UNCHANGED <<personaVars, logVars, now, textVars, imageVars, voiceVars>>

(***************************************************************************)
(* Chat turns (chat_text with its generator generate_stream, chat_image).  *)
(***************************************************************************)
Messages  == {<<"h", "i">>, <<"y", "o">>}
\* the form fields of POST /chat/text; lat and lon default to 0.0
TextRequests ==
    {[message |-> <<"h", "i">>, lat |-> 0, lon |-> 0],
     [message |-> <<"y", "o">>, lat |-> 34, lon |-> -118]}
Tokens    == {<<"a">>, <<"b", "c">>}
FileNames == {"a.png", "b.png"}

\* the tuple of one INSERT INTO turns
Row(timestamp, user_msg, bot_res, lat, lon, type) ==
    [timestamp |-> timestamp, user_msg |-> user_msg, bot_res |-> bot_res,
     lat |-> lat, lon |-> lon, type |-> type]

\* the row chat_text inserts
TextRow(req, bot_res) ==
    Row(now, req.message, bot_res, req.lat, req.lon, "text")

\* f"[Image] {message}"
ImageMarker == <<"[", "I", "m", "a", "g", "e", "]", " ">>

\* an image row filed under a type of its own, without the marker
ImageRowAsVision(req, bot_res) ==
    Row(now, req.message, bot_res, 0, 0, "vision")

\* the row chat_image inserts
ImageRow(req, bot_res) ==
    Row(now, ImageMarker \o req.message, bot_res, 0, 0, "image")

\* SELECT COUNT(*) FROM turns WHERE type = ty
CountOfType(ty) == Cardinality({n \in 1..Len(turns) : turns[n].type = ty})

\* GET /stats: the counts of the store and of the turns log; when a query
\* of its block raises, the counts of the block are all 0
get_stats(store_raises, db_raises) ==
    [facts               |-> IF store_raises THEN 0 ELSE Cardinality(OfType(store, "fact")),
     philosophy          |-> IF store_raises THEN 0 ELSE Cardinality(OfType(store, "philosophy")),
     voice               |-> IF speakerWav THEN 1 ELSE 0,
     conversations       |-> IF db_raises THEN 0 ELSE Len(turns),
     text_conversations  |-> IF db_raises THEN 0 ELSE CountOfType("text"),
     image_conversations |-> IF db_raises THEN 0 ELSE CountOfType("image")]

\* an accumulation that keeps the last token only
AccumulateLast(fr, token) == token

\* full_response += token
Accumulate(fr, token) == fr \o token

\* the rows handler h inserted
RowsBy(h) == {n \in 1..Len(turns) : rowBy[n] = h}

\* build_dynamic_system_prompt reads the persona through
\* load_persona_config, which may write CONFIG_PATH
LoadForPrompt ==
    LET r == load_persona_config(personaFile)
    IN  /\ personaFile' = r.file
        /\ personaWrites' = personaWrites + r.writes
        /\ lastLoad' = LoadRecord(r)
        /\ UNCHANGED personaOps

\* a turn that assembles its prompt before it searches the store
PromptBeforeSearch == <<"prompt", "search", "generate">>

\* the statements of a turn up to the invocation of the generator, in their
\* order: similarity_search, build_dynamic_system_prompt and the prompt
\* string, ollama.generate
StepsToGenerate == <<"search", "prompt", "generate">>

\* generate_stream from a pull of the stream on: the next chunk is yielded,
\* or the stream raises, or it is exhausted and the turn is inserted
StreamStep(t, req, fr, em, pl) ==
    /\ treq' = [treq EXCEPT ![t] = req]
    /\ \/ \* a chunk arrives and its token is yielded
          /\ pl < MaxFragments
          /\ \E token \in Tokens :
               /\ full_response' = [full_response EXCEPT ![t] = Accumulate(fr, token)]
               /\ emitted' = [emitted EXCEPT ![t] = Append(em, token)]
          /\ pulled' = [pulled EXCEPT ![t] = pl + 1]
          /\ tpc' = [tpc EXCEPT ![t] = "yielded"]
          /\ tsteps' = [tsteps EXCEPT ![t] = IF pl = 0 THEN StepsToGenerate ELSE @]
          /\ UNCHANGED <<tout, logVars, now>>
       \/ \* ollama.generate or the stream raises
          /\ tpc' = [tpc EXCEPT ![t] = "generation_failed"]
          /\ tout' = [tout EXCEPT ![t] = "raised"]
          /\ tsteps' = [tsteps EXCEPT ![t] = IF pl = 0 THEN StepsToGenerate ELSE @]
          /\ UNCHANGED <<full_response, emitted, pulled, logVars, now>>
       \/ \* the stream is exhausted and the turn is inserted
          /\ turns' = Append(turns, TextRow(req, fr))
          /\ rowBy' = Append(rowBy, t)
          /\ now' = now + 1
          /\ tpc' = [tpc EXCEPT ![t] = "done"]
          /\ tout' = [tout EXCEPT ![t] = "complete"]
          /\ tsteps' = [tsteps EXCEPT ![t] =
                 (IF pl = 0 THEN StepsToGenerate ELSE @) \o <<"generated", "insert">>]
          /\ UNCHANGED <<full_response, emitted, pulled>>
       \/ \* the stream is exhausted and the insert raises
          /\ tpc' = [tpc EXCEPT ![t] = "persist_failed"]
          /\ tout' = [tout EXCEPT ![t] = "raised"]
          /\ tsteps' = [tsteps EXCEPT ![t] =
                 (IF pl = 0 THEN StepsToGenerate ELSE @) \o <<"generated", "insert">>]
          /\ UNCHANGED <<full_response, emitted, pulled, logVars, now>>

\* POST /chat/text, up to the first yield of generate_stream: retrieval,
\* prompt, and the first pull of the stream
TextBegin(t) ==
    /\ tpc[t] = "idle"
    /\ \E req \in TextRequests :
         \/ \* similarity_search raises
            /\ treq' = [treq EXCEPT ![t] = req]
            /\ tpc' = [tpc EXCEPT ![t] = "retrieval_failed"]
            /\ tout' = [tout EXCEPT ![t] = "raised"]
            /\ tsteps' = [tsteps EXCEPT ![t] = SubSeq(StepsToGenerate, 1, 1)]
            /\ UNCHANGED <<personaVars, full_response, emitted, pulled,
                           logVars, now>>
         \/ /\ LoadForPrompt
            /\ StreamStep(t, req, <<>>, <<>>, 0)
    /\ UNCHANGED <<storeVars, imageVars, voiceVars>>

\* the client takes the fragment and asks for the next one: generate_stream
\* goes on after its yield
TextResume(t) ==
    /\ tpc[t] = "yielded"
    /\ StreamStep(t, treq[t], full_response[t], emitted[t], pulled[t])
    /\ UNCHANGED <<personaVars, storeVars, imageVars, voiceVars>>

\* a disconnect after which the partial turn is inserted all the same
DisconnectSaving(t) ==
    /\ tpc[t] = "yielded"
    /\ tpc' = [tpc EXCEPT ![t] = "cancelled"]
    /\ tout' = [tout EXCEPT ![t] = "disconnected"]
    /\ turns' = Append(turns, TextRow(treq[t], full_response[t]))
    /\ rowBy' = Append(rowBy, t)
    /\ UNCHANGED <<personaVars, storeVars, now, treq, full_response, emitted,
                   pulled, tsteps, imageVars, voiceVars>>

\* the client disconnects while generate_stream is suspended at its yield:
\* the generator is closed there and nothing after the yield runs
Disconnect(t) ==
    /\ tpc[t] = "yielded"
    /\ tpc' = [tpc EXCEPT ![t] = "cancelled"]
    /\ tout' = [tout EXCEPT ![t] = "disconnected"]
    /\ UNCHANGED <<personaVars, storeVars, logVars, now, treq, full_response,
                   emitted, pulled, tsteps, imageVars, voiceVars>>

\* a file name leads to an inode and its data; inode 0 stands for no file
Empty == <<>>
NoFileAt == [ino |-> 0, data |-> Empty]
Exists(files, name) == files[name].ino # 0

\* open(name, "wb"): an existing file is truncated, a missing one created
OpenWb(files, name, ino) ==
    [files EXCEPT ![name] = [ino  |-> IF Exists(files, name) THEN @.ino ELSE ino,
                             data |-> Empty]]

\* buffer.write(data) through a descriptor on inode ino: seen at name only
\* while name still leads to that inode
WriteFd(files, name, ino, data) ==
    IF files[name].ino = ino THEN [files EXCEPT ![name].data = data] ELSE files

\* os.remove(name)
Remove(files, name) == [files EXCEPT ![name] = NoFileAt]

temp_file(req) == req.file

\* POST /chat/image up to its await: the transient file is opened for writing
ImageOpen(i) ==
    /\ ipc[i] = "idle"
    /\ \E message \in Messages, name \in FileNames :
         LET req == [message |-> message, file |-> name, image |-> <<"image", i>>]
         IN  /\ ireq' = [ireq EXCEPT ![i] = req]
             /\ \/ /\ ipc' = [ipc EXCEPT ![i] = "open_failed"]
                   /\ iout' = [iout EXCEPT ![i] = [status |-> 500, response |-> <<>>]]
                   /\ UNCHANGED <<ifd, fs, nextIno>>
                \/ /\ fs' = OpenWb(fs, temp_file(req), nextIno)
                   /\ ifd' = [ifd EXCEPT ![i] = fs'[temp_file(req)].ino]
                   /\ nextIno' = IF Exists(fs, temp_file(req)) THEN nextIno ELSE nextIno + 1
                   /\ ipc' = [ipc EXCEPT ![i] = "reading"]
                   /\ UNCHANGED iout
    /\ UNCHANGED <<personaVars, storeVars, logVars, now, textVars, iseen, isteps,
                   voiceVars>>

\* chat_image from the end of its await on: the upload is written, then the
\* try block runs to the return or to the except clause
ImageResume(i) ==
    /\ ipc[i] = "reading"
    /\ LET req     == ireq[i]
           name    == temp_file(req)
           written == WriteFd(fs, name, ifd[i], req.image)
           failed  == [status |-> 500, response |-> <<>>]
       IN  \/ \* file.read() or buffer.write() raises, outside the try
              /\ ipc' = [ipc EXCEPT ![i] = "upload_failed"]
              /\ iout' = [iout EXCEPT ![i] = failed]
              /\ UNCHANGED <<fs, iseen, isteps, personaVars, logVars, now>>
           \/ \* similarity_search raises
              /\ ipc' = [ipc EXCEPT ![i] = "retrieval_failed"]
              /\ iout' = [iout EXCEPT ![i] = failed]
              /\ fs' = Remove(written, name)
              /\ isteps' = [isteps EXCEPT ![i] = SubSeq(StepsToGenerate, 1, 1)]
              /\ UNCHANGED <<iseen, personaVars, logVars, now>>
           \/ \* ollama.generate raises; it does when temp_file is not there
              /\ LoadForPrompt
              /\ ipc' = [ipc EXCEPT ![i] = "generation_failed"]
              /\ iout' = [iout EXCEPT ![i] = failed]
              /\ fs' = Remove(written, name)
              /\ isteps' = [isteps EXCEPT ![i] = StepsToGenerate]
              /\ UNCHANGED <<iseen, logVars, now>>
           \/ \* the response is generated and the turn inserted
              /\ Exists(written, name)
              /\ LoadForPrompt
              /\ \E bot_res \in Tokens :
                   /\ turns' = Append(turns, ImageRow(req, bot_res))
                   /\ iout' = [iout EXCEPT ![i] = [status |-> 200, response |-> bot_res]]
              /\ rowBy' = Append(rowBy, i)
              /\ now' = now + 1
              /\ iseen' = [iseen EXCEPT ![i] = written[name].data]
              /\ ipc' = [ipc EXCEPT ![i] = "done"]
              /\ isteps' = [isteps EXCEPT ![i] = StepsToGenerate \o <<"generated", "insert">>]
              /\ fs' = Remove(written, name)
           \/ \* the response is generated and the insert raises
              /\ Exists(written, name)
              /\ LoadForPrompt
              /\ iseen' = [iseen EXCEPT ![i] = written[name].data]
              /\ ipc' = [ipc EXCEPT ![i] = "persist_failed"]
              /\ iout' = [iout EXCEPT ![i] = failed]
              /\ isteps' = [isteps EXCEPT ![i] = StepsToGenerate \o <<"generated", "insert">>]
              /\ fs' = Remove(written, name)
              /\ UNCHANGED <<logVars, now>>
    /\ UNCHANGED <<storeVars, textVars, ireq, ifd, nextIno, voiceVars>>

(***************************************************************************)
(* Voice cache (get_voice_cache_path, generate_voice).                     *)
(***************************************************************************)
VoiceTexts == {<<>>, <<" ", " ">>, <<"h", "i">>, <<"h", "i", " ">>}

CharCode(c) == CASE c = " " -> 1 [] c = "h" -> 2 [] c = "i" -> 3

\* hashlib.md5(text): a digest of the exact text, taken as free of collisions
RECURSIVE Md5(_)
Md5(text) ==
    IF text = <<>> THEN 0 ELSE 4 * Md5(SubSeq(text, 1, Len(text) - 1)) + CharCode(text[Len(text)])

\* a cache key that also tells whether the reference sample is there
KeyWithSample(text) == <<Md5(text), speakerWav>>

\* get_voice_cache_path(text): the cache key of a text
get_voice_cache_path(text) == <<Md5(text)>>

\* not text or not text.strip()
IsBlank(text) == text = <<>> \/ Strip(text) = <<>>

\* the engine invocations so far
EngineCalls == Cardinality({n \in 1..Len(voiceLog) : voiceLog[n].engine})

\* the WAV file of one engine invocation
Artifact(text, complete) ==
    [text |-> text, cloned |-> speakerWav, take |-> EngineCalls + 1, complete |-> complete]

NoBody == [text |-> <<>>, cloned |-> FALSE, take |-> 0, complete |-> FALSE]

Served(text, status, body, engine) ==
    [text |-> text, status |-> status, body |-> body, engine |-> engine,
     loaded |-> voice_engine, sample |-> speakerWav, persona |-> personaWrites]

\* GET /voice/generate
\* an existence check that takes a half-written file as missing
ExistsComplete(cache_path) == cache_path \in DOMAIN cache /\ cache[cache_path].complete

\* os.path.exists(cache_path)
PathExists(cache_path) == cache_path \in DOMAIN cache

\* GET /voice/generate: the handler has no await, so it runs from its first
\* statement to its return or raise without another request in between
generate_voice ==
    /\ Len(voiceLog) < MaxVoiceReqs
    /\ \E text \in VoiceTexts :
         LET cache_path == get_voice_cache_path(text)
         IN  IF ~voice_engine
             THEN /\ voiceLog' = Append(voiceLog, Served(text, 503, NoBody, FALSE))
                  /\ UNCHANGED cache
             ELSE IF IsBlank(text)
             THEN /\ voiceLog' = Append(voiceLog, Served(text, 400, NoBody, FALSE))
                  /\ UNCHANGED cache
             ELSE IF PathExists(cache_path)
             THEN \* cache HIT
                  /\ voiceLog' = Append(voiceLog, Served(text, 200, cache[cache_path], FALSE))
                  /\ UNCHANGED cache
             ELSE \* cache MISS
                  \/ \* the engine or the conversion raises
                     /\ voiceLog' = Append(voiceLog, Served(text, 500, NoBody, TRUE))
                     /\ UNCHANGED cache
                  \/ \* scipy_wavfile.write raises after creating the file
                     /\ voiceLog' = Append(voiceLog, Served(text, 500, NoBody, TRUE))
                     /\ cache' = (cache_path :> Artifact(text, FALSE)) @@ cache
                  \/ \* the file is written and served
                     /\ voiceLog' = Append(voiceLog, Served(text, 200, Artifact(text, TRUE), TRUE))
                     /\ cache' = (cache_path :> Artifact(text, TRUE)) @@ cache
    /\ UNCHANGED <<personaVars, storeVars, logVars, now, textVars, imageVars,
                   voice_engine, speakerWav>>

\* the reference sample SPEAKER_WAV is put in place or taken away
SpeakerSampleChanges ==
    /\ speakerWav' = ~speakerWav
    /\ UNCHANGED <<personaVars, storeVars, logVars, now, textVars, imageVars,
                   voice_engine, cache, voiceLog>>

(***************************************************************************)
(* Initial states and specifications.                                      *)
(***************************************************************************)
\* the state after start-up, on one of the given persona files, with the
\* voice engine loaded or not and the reference sample present or not
InitOn(personas, engines, samples) ==
    /\ personaFile \in personas
    /\ personaWrites = 0
    /\ personaOps = 0
    /\ lastLoad = NoLoad
    /\ store = {}
    /\ nextId = 1
    /\ lastIngest = NoIngest
    /\ turns = <<>>
    /\ rowBy = <<>>
    /\ now = 1
    /\ tpc = [t \in TextTurns |-> "idle"]
    /\ treq = [t \in TextTurns |-> [message |-> <<>>, lat |-> 0, lon |-> 0]]
    /\ full_response = [t \in TextTurns |-> <<>>]
    /\ emitted = [t \in TextTurns |-> <<>>]
    /\ pulled = [t \in TextTurns |-> 0]
    /\ tout = [t \in TextTurns |-> "open"]
    /\ tsteps = [t \in TextTurns |-> <<>>]
    /\ ipc = [i \in ImageTurns |-> "idle"]
    /\ ireq = [i \in ImageTurns |-> [message |-> <<>>, file |-> "a.png", image |-> Empty]]
    /\ ifd = [i \in ImageTurns |-> 0]
    /\ iseen = [i \in ImageTurns |-> Empty]
    /\ iout = [i \in ImageTurns |-> [status |-> 0, response |-> <<>>]]
    /\ isteps = [i \in ImageTurns |-> <<>>]
    /\ fs = [name \in FileNames |-> NoFileAt]
    /\ nextIno = 1
    /\ voice_engine \in engines
    /\ speakerWav \in samples
    /\ cache = <<>>
    /\ voiceLog = <<>>

Init == InitOn({NoFile, FileOf(default_persona)}, BOOLEAN, BOOLEAN)

TextNext ==
    \E t \in TextTurns : TextBegin(t) \/ TextResume(t) \/ Disconnect(t)

ImageNext ==
    \E i \in ImageTurns : ImageOpen(i) \/ ImageResume(i)

Next ==
    \/ get_persona_api
    \/ update_persona
    \/ ingestFacts
    \/ ingestPhilosophy
    \/ TextNext
    \/ ImageNext
    \/ generate_voice
    \/ SpeakerSampleChanges

Spec == Init /\ [][Next]_vars

\* the persona requests alone, on every stored persona file
PersonaInit == InitOn(StoredPersonas, {TRUE}, {FALSE})
PersonaNext == get_persona_api \/ update_persona
SpecPersona == PersonaInit /\ [][PersonaNext]_vars

\* the two ingestion pipelines alone
IngestInit == InitOn({FileOf(default_persona)}, {TRUE}, {FALSE})
IngestNext == ingestFacts \/ ingestPhilosophy
SpecIngest == IngestInit /\ [][IngestNext]_vars

\* the text turns alone
ChatInit == InitOn({FileOf(default_persona)}, {TRUE}, {FALSE})
SpecText == ChatInit /\ [][TextNext]_vars

\* the image turns alone
SpecImage == ChatInit /\ [][ImageNext]_vars

\* one text turn and one image turn served by the same event loop
ChatNext ==
    \/ TextBegin(1) \/ TextResume(1) \/ Disconnect(1)
    \/ ImageOpen(NumText + 1) \/ ImageResume(NumText + 1)
SpecChat == ChatInit /\ [][ChatNext]_vars

\* the voice requests, with persona updates and changes of the sample
VoiceInit == InitOn({FileOf(default_persona)}, BOOLEAN, BOOLEAN)
VoiceNext == generate_voice \/ SpeakerSampleChanges \/ update_persona
SpecVoice == VoiceInit /\ [][VoiceNext]_vars

(***************************************************************************)
(* Properties.                                                             *)
(***************************************************************************)
\* the stream of text turn t was exhausted: its generation succeeded
Exhausted(t) == tpc[t] \in {"done", "persist_failed"}

\* row n is the row of text turn t: its message, its location, type "text"
\* and the concatenation of the fragments streamed, in emission order
IsRowOfText(n, t) ==
    /\ turns[n].user_msg = treq[t].message
    /\ turns[n].bot_res = Concat(emitted[t])
    /\ turns[n].lat = treq[t].lat
    /\ turns[n].lon = treq[t].lon
    /\ turns[n].type = "text"

\* C1 as stated: every text turn whose generation succeeds has exactly one
\* row in the turns log, and that row holds the concatenation of its
\* fragments, its message, type "text" and its lat/lon.
C1_EveryCompletedTextTurnLogged ==
    \A t \in TextTurns :
        Exhausted(t) =>
            /\ Cardinality(RowsBy(t)) = 1
            /\ \A n \in RowsBy(t) : IsRowOfText(n, t)

\* C1 as amended: a text turn has a row only once its stream is exhausted
\* and the insert succeeded, it never has two, and the row holds the
\* concatenation of all fragments streamed (so none is streamed after the
\* row is appended), the message, type "text" and the lat/lon received;
\* a turn whose insert raised has no row.
C1_TextTurnLoggedOnce ==
    \A t \in TextTurns :
        /\ Cardinality(RowsBy(t)) = (IF tpc[t] = "done" THEN 1 ELSE 0)
        /\ \A n \in RowsBy(t) : IsRowOfText(n, t)

\* two text turns with different requests were both streamed in two
\* fragments and logged
C1_Witness ==
    \E t, u \in TextTurns :
        /\ tpc[t] = "done" /\ tpc[u] = "done"
        /\ treq[t] # treq[u]
        /\ Len(emitted[t]) = 2 /\ Len(emitted[u]) = 2
        /\ emitted[t][1] # emitted[t][2]
        /\ Len(turns) = 2

\* C2: a text turn whose client disconnected before the stream was
\* exhausted has no row in the turns log and has taken no chunk from the
\* stream beyond the fragments it had yielded.
C2_DisconnectWritesNothing ==
    \A t \in TextTurns :
        tpc[t] = "cancelled" =>
            /\ RowsBy(t) = {}
            /\ pulled[t] = Len(emitted[t])
            /\ tout[t] = "disconnected"

\* a turn was abandoned after its first fragment while another was logged
C2_Witness ==
    \E t, u \in TextTurns :
        /\ tpc[t] = "cancelled" /\ Len(emitted[t]) = 1
        /\ tpc[u] = "done" /\ Len(emitted[u]) = 2

\* C3 as stated: after an ingestion that returns a count, the items stored
\* under its type are exactly the items of that ingestion.
C3_IngestionReplacesPartition ==
    (lastIngest.n > 0 /\ lastIngest.ret >= 0) =>
        OfType(store, lastIngest.type) = lastIngest.items

\* C4: an ingestion of one type leaves the items stored under the other
\* type as they were, whatever it returns.
C4_OtherPartitionUntouched ==
    lastIngest.n > 0 =>
        \A ty \in {"fact", "philosophy"} :
            ty # lastIngest.type => OfType(store, ty) = OfType(lastIngest.before, ty)

\* facts were ingested over a store holding facts and philosophy: the old
\* facts are gone, the new ones stored
C4_Witness ==
    /\ lastIngest.n > 0 /\ lastIngest.type = "fact" /\ lastIngest.ret = 2
    /\ OfType(lastIngest.before, "philosophy") # {}
    /\ OfType(lastIngest.before, "fact") # {}
    /\ OfType(store, "fact") = lastIngest.items

\* requests m < n for the same text
Repeats(m, n) ==
    /\ m < n
    /\ voiceLog[m].text = voiceLog[n].text

\* C5: when a synthesize request for a non-blank text succeeded, every
\* later request for the same text succeeds with the same artifact and
\* without invoking the engine, whatever happened to the persona and to the
\* reference sample in between.
C5_SecondCallIsCacheHit ==
    \A m, n \in DOMAIN voiceLog :
        (Repeats(m, n) /\ ~IsBlank(voiceLog[m].text) /\ voiceLog[m].status = 200) =>
            /\ voiceLog[n].status = 200
            /\ voiceLog[n].body = voiceLog[m].body
            /\ ~voiceLog[n].engine

\* a text was synthesized by the engine and requested again after the
\* persona was updated and the reference sample changed
C5_Witness ==
    \E m, n \in DOMAIN voiceLog :
        /\ Repeats(m, n)
        /\ voiceLog[m].status = 200 /\ voiceLog[m].engine
        /\ voiceLog[m].sample # voiceLog[n].sample
        /\ voiceLog[m].persona # voiceLog[n].persona

\* C6 as stated: a synthesize request for an empty or whitespace-only text
\* is answered 400 and does not reach the engine, in every state.
C6_BlankTextAlways400 ==
    \A n \in DOMAIN voiceLog :
        IsBlank(voiceLog[n].text) =>
            (voiceLog[n].status = 400 /\ ~voiceLog[n].engine)

\* chat_image has returned or raised
ImageExited(i) == ipc[i] \notin {"idle", "reading"}

\* C7 as stated: once an image turn has exited, on whatever path, the
\* transient file it materialized is no longer there.
C7_TempFileGoneAtExit ==
    \A i \in ImageTurns :
        (ImageExited(i) /\ ifd[i] # 0) => fs[temp_file(ireq[i])].ino # ifd[i]

\* C8 as stated: a turn whose retrieval and generation succeeded and whose
\* insert alone raised still ends as a successful response: the text stream
\* ends normally after all fragments, the image turn answers 200.
C8_PersistFailureSwallowed ==
    /\ \A t \in TextTurns : tpc[t] = "persist_failed" => tout[t] = "complete"
    /\ \A i \in ImageTurns : ipc[i] = "persist_failed" => iout[i].status = 200

\* C9 as stated: -2 exactly for a philosophy document whose extracted text
\* is blank, -1 whenever the extraction or a store call raised, and a count
\* otherwise.
C9_ThreeWayTaxonomy ==
    lastIngest.n > 0 =>
        /\ (lastIngest.ret = -2) <=> lastIngest.blank
        /\ (lastIngest.ret = -1) <=> (lastIngest.raised # {})
        /\ lastIngest.ret \notin {-1, -2} => lastIngest.ret >= 0

\* C10: a load returns all nine keys, keeps every stored value, leaves the
\* file holding what it returned, writes nothing when the file lacked no
\* key, and a load right after another returns the same and writes nothing.
C10_LoadMigratesOnce ==
    lastLoad.seen =>
        /\ PersonaKeys \subseteq DOMAIN lastLoad.returned
        /\ lastLoad.before.exists =>
              \A k \in DOMAIN lastLoad.before.data :
                  lastLoad.returned[k] = lastLoad.before.data[k]
        /\ lastLoad.after = FileOf(lastLoad.returned)
        /\ (lastLoad.before.exists /\ PersonaKeys \subseteq DOMAIN lastLoad.before.data)
              => lastLoad.writes = 0
        /\ (lastLoad.before.exists /\ ~(PersonaKeys \subseteq DOMAIN lastLoad.before.data))
              => lastLoad.writes = 1
        /\ lastLoad.again => (lastLoad.returned = lastLoad.prev /\ lastLoad.writes = 0)

\* a file of an older schema was loaded twice: the first load migrated it,
\* keeping its stored values, the second is the one recorded
C10_Witness ==
    /\ lastLoad.seen /\ lastLoad.again
    /\ personaWrites = 1
    /\ \E k \in PersonaKeys : lastLoad.returned[k] = "stored"
    /\ \E k \in PersonaKeys : lastLoad.returned[k] = defaults[k]
    /\ lastLoad.returned["user_name"] = defaults["user_name"]

\* the column aliases of a fact's text, in their order of priority
Aliases == <<"text_chunk", "text", "fact">>

\* the aliases under which the row holds a non-empty text
Supplied(row) == {a \in 1..Len(Aliases) : Aliases[a] \in DOMAIN row /\ row[Aliases[a]] # ""}

\* the row's text under the first alias that supplies one
FirstSupplied(row) ==
    row[Aliases[CHOOSE a \in Supplied(row) : \A b \in Supplied(row) : a <= b]]

IsUsable(row) == Supplied(row) # {}

\* C11: an ingestFacts whose file is read and whose insert does not raise
\* returns the number of rows that supply a non-empty text under one of the
\* aliases, and stores one fact per such row, holding the text of the first
\* alias that supplies one; rows without a text are neither counted nor
\* stored, and do not fail the batch.
C11_CountsRowsWithText ==
    (lastIngest.n > 0 /\ lastIngest.type = "fact"
        /\ lastIngest.raised \cap {"read", "add"} = {}) =>
        LET usable == SelectSeq(lastIngest.rows, IsUsable)
        IN  /\ lastIngest.ret = Len(usable)
            /\ Cardinality(lastIngest.items) = Len(usable)
            /\ lastIngest.items \subseteq OfType(store, "fact")
            /\ \A it \in lastIngest.items :
                   \E k \in 1..Len(usable) : it.text = FirstSupplied(usable[k])
            /\ \A k \in 1..Len(usable) :
                   \E it \in lastIngest.items : it.text = FirstSupplied(usable[k])

\* the three rows text_chunk A, text B and other x were ingested over a
\* store holding a fact: two are counted, and exactly two facts are stored
C11_Witness ==
    /\ lastIngest.n > 0 /\ lastIngest.type = "fact"
    /\ Len(lastIngest.rows) = 3
    /\ lastIngest.ret = 2
    /\ OfType(lastIngest.before, "fact") # {}
    /\ Cardinality(OfType(store, "fact")) = 2
    /\ {it.text : it \in OfType(store, "fact")} = {"A", "B"}

\* the handler's turn ended with an error or was abandoned
Failed(pc) == pc \in {"retrieval_failed", "generation_failed", "persist_failed",
                      "cancelled", "open_failed", "upload_failed"}

\* the position and the full response of turn h, text or image, in the
\* state after a step
PcAfter(h) == IF h \in TextTurns THEN tpc'[h] ELSE ipc'[h]
ResponseAfter(h) == IF h \in TextTurns THEN Concat(emitted'[h]) ELSE iout'[h].response

\* C12: every step leaves the rows of the turns log as they are and adds
\* at most one; a row added is the first row of its turn, is added by the
\* step that completes the turn, and holds the turn's full response; a step
\* in which a turn fails (retrieval, generation, text or image) or is
\* abandoned adds nothing.
C12_LogIsAppendOnlyOfCompletedTurns ==
    [][/\ Len(turns') \in {Len(turns), Len(turns) + 1}
       /\ SubSeq(turns', 1, Len(turns)) = turns
       /\ SubSeq(rowBy', 1, Len(rowBy)) = rowBy
       /\ \A n \in (Len(turns) + 1)..Len(turns') :
              LET h == rowBy'[n]
              IN  /\ RowsBy(h) = {}
                  /\ (IF h \in TextTurns THEN tpc[h] ELSE ipc[h]) # "done"
                  /\ PcAfter(h) = "done"
                  /\ turns'[n].bot_res = ResponseAfter(h)
       /\ \A h \in TextTurns \cup ImageTurns :
              (Failed(PcAfter(h)) /\ (IF h \in TextTurns THEN tpc[h] ELSE ipc[h]) # PcAfter(h))
                  => turns' = turns
      ]_vars

\* a text turn streamed in two fragments and an image turn are both logged
C12_Witness ==
    /\ Len(turns) = 2
    /\ \E t \in TextTurns, i \in ImageTurns :
           /\ tpc[t] = "done" /\ ipc[i] = "done"
           /\ Len(emitted[t]) = 2
           /\ Cardinality(RowsBy(t)) = 1 /\ Cardinality(RowsBy(i)) = 1
           /\ turns[1].type # turns[2].type

\* the steps of a turn in the order required of them
Pipeline == <<"search", "prompt", "generate", "generated", "insert">>

StepsOf(h) == IF h \in TextTurns THEN tsteps[h] ELSE isteps[h]

\* C13: at every moment the steps a turn (text or image) has taken are an
\* initial part of: similarity search, prompt assembly, invocation of the
\* generator, end of the generation, insert into the turns log; a turn that
\* has a row took them all, and a text turn that streams a fragment has
\* searched and assembled its prompt before it invoked the generator,
\* whatever the other turn does in between.
C13_StepsInOrder ==
    \A h \in TextTurns \cup ImageTurns :
        /\ Len(StepsOf(h)) <= Len(Pipeline)
        /\ StepsOf(h) = SubSeq(Pipeline, 1, Len(StepsOf(h)))
        /\ RowsBy(h) # {} => StepsOf(h) = Pipeline
        /\ (h \in TextTurns /\ emitted[h] # <<>>) => Len(StepsOf(h)) >= 3

\* while a text turn is suspended between two fragments, an image turn ran
\* from its search to its insert
C13_Witness ==
    \E t \in TextTurns, i \in ImageTurns :
        /\ tpc[t] = "yielded" /\ Len(tsteps[t]) = 3
        /\ ipc[i] = "done" /\ isteps[i] = Pipeline
        /\ RowsBy(i) # {}

\* image turn i has opened its transient file and not yet removed it
HoldsFile(i) == ipc[i] = "reading"

\* C14 as stated: while an image turn holds its transient file, the file's
\* name leads to the file the turn opened, and no other turn has opened
\* (and so truncated) that file or can remove it.
C14_TransientFileExclusivelyOwned ==
    \A i \in ImageTurns :
        HoldsFile(i) =>
            /\ fs[temp_file(ireq[i])].ino = ifd[i]
            /\ \A j \in ImageTurns \ {i} : HoldsFile(j) => ifd[j] # ifd[i]

\* C15: no step rewrites, truncates or deletes a cache file that exists:
\* every key of the cache stays, with the file it has; so each cache file
\* is written at most once, by the request that created it.
C15_CacheIsAppendOnly ==
    [][\A key \in DOMAIN cache : key \in DOMAIN cache' /\ cache'[key] = cache[key]]_vars

\* a request left a half-written cache file behind, and a later request
\* for the same text invoked no engine and wrote nothing
C15_Witness ==
    \E m, n \in DOMAIN voiceLog :
        /\ Repeats(m, n)
        /\ voiceLog[m].engine /\ voiceLog[m].status = 500
        /\ ~voiceLog[n].engine /\ voiceLog[n].status = 200
        /\ get_voice_cache_path(voiceLog[n].text) \in DOMAIN cache
        /\ cache[get_voice_cache_path(voiceLog[n].text)] = voiceLog[n].body

\* C16 as stated: whenever the existence check of a synthesize request
\* succeeds (a response served from the cache, without the engine), the file
\* served is completely written.
C16_HitServesCompleteFile ==
    \A n \in DOMAIN voiceLog :
        (voiceLog[n].status = 200 /\ ~voiceLog[n].engine) => voiceLog[n].body.complete

\* s begins with prefix
StartsWith(s, prefix) ==
    Len(s) >= Len(prefix) /\ SubSeq(s, 1, Len(prefix)) = prefix

\* C17: every row of the turns log has type "text" or "image", so whatever
\* /stats returns satisfies conversations = text_conversations +
\* image_conversations; every row of type "image" has lat = lon = 0 and a
\* user message that begins with "[Image] ".
C17_RowsAreTextOrImage ==
    /\ \A n \in DOMAIN turns :
           /\ turns[n].type \in {"text", "image"}
           /\ turns[n].type = "image" =>
                  /\ turns[n].lat = 0 /\ turns[n].lon = 0
                  /\ StartsWith(turns[n].user_msg, <<"[", "I", "m", "a", "g", "e", "]", " ">>)
    /\ \A store_raises, db_raises \in BOOLEAN :
           LET stats == get_stats(store_raises, db_raises)
           IN  stats.conversations = stats.text_conversations + stats.image_conversations

\* the log holds the row of a text turn sent with a location and the row
\* of an image turn, and /stats counts 2 = 1 + 1
C17_Witness ==
    /\ \E n, k \in DOMAIN turns :
           /\ turns[n].type = "text" /\ turns[n].lat # 0
           /\ turns[k].type = "image"
    /\ get_stats(FALSE, FALSE).conversations = 2
    /\ get_stats(FALSE, FALSE).text_conversations = 1
    /\ get_stats(FALSE, FALSE).image_conversations = 1

====
